---- MODULE Spec2Model ----
(***************************************************************************)
(* Model of the Puppeteer workflow node: the session resolver, the action  *)
(* executor / script sandbox (runAction) and the batch driver (execute).   *)
(* One invocation of execute runs at a time; every step of an invocation   *)
(* is one awaited call together with the synchronous code that follows it  *)
(* up to the next await.                                                   *)
(***************************************************************************)
EXTENDS Integers, Sequences, FiniteSets, TLC

\* ---------------------------------------------------------------- bounds
MaxItems == 2          \* largest input item set of one invocation
MaxScriptItems == 1    \* longest array a user script returns
MaxArgs == 4           \* longest list of user-supplied launch arguments

\* ------------------------------------------------------- value domains
ActionOps == {"getPageContent", "getPDF", "getScreenshot"}
BatchOps == ActionOps \cup {"runCustomScript"}

Responses ==
    { [wsEndpoint |-> "ws://a", pageId |-> "p1", sessionId |-> "s1"],
      [wsEndpoint |-> "ws://b", pageId |-> "p2", sessionId |-> "s2"] }
SessionIdParams == {"s1"}
ManagerUrlParams == {"http://m1", "http://m2"}
StopSessionIdParams == {"", "s9"}
StopManagerUrlParams == {"", "http://m1"}
ManualEndpointParams == {"", "ws://m"}
ManualPageIdParams == {"", "p9"}
LaunchArgumentParams == { <<>>, <<"--user-arg", "--no-sandbox">> }

CONTAINER_LAUNCH_ARGS ==
    << "--no-sandbox", "--disable-setuid-sandbox",
       "--disable-dev-shm-usage", "--disable-gpu" >>

\* An optional value is a set with at most one element.
Value(opt) == CHOOSE d \in opt : TRUE

\* ------------------------------------------------------------- records
NoPair == -1

\* One call made to a collaborator, with its result.
Call(name, item, arg, url, ok) ==
    [call |-> name, item |-> item, arg |-> arg, url |-> url, ok |-> ok]

\* An output record: its payload kind, the item it came from, pairedItem,
\* json.pageId ("" when the field is absent) and json.error ("" when absent).
Record(kind, src, paired, pageId, error) ==
    [kind |-> kind, src |-> src, pairedItem |-> paired,
     pageId |-> pageId, error |-> error]

Returned(recs) == [threw |-> FALSE, error |-> "", recs |-> recs]
Threw(err) == [threw |-> TRUE, error |-> err, recs |-> <<>>]

NoPdfOptions ==
    [called |-> FALSE, preferCSSPageSize |-> FALSE, height |-> "",
     width |-> "", format |-> ""]

DefaultCfg ==
    [continueOnFail |-> FALSE, n |-> 0,
     manualSessionOverride |-> FALSE, manualWsEndpoint |-> "",
     manualPageId |-> "",
     sessionId |-> "", browserManagerUrl |-> "",
     stopSessionId |-> "", stopBrowserManagerUrl |-> "",
     launchArguments |-> <<>>, addContainerArgs |-> FALSE]

\* history: no session is stored and none was overwritten.
NoStartHistory == [latest |-> "", superseded |-> "", stopped |-> ""]

VARIABLES
    puppeteerSession,  \* workflow static data slot: {} or {descriptor}
    pc,                \* position of the current invocation of execute
    operation,         \* the 'operation' parameter of the invocation
    cfg,               \* the node parameters of the invocation
    startSlot,         \* the slot as it was when the invocation started
    session,           \* execute's local 'session': {} or {descriptor}
    isManualSession,   \* execute's local 'isManualSession'
    launchedWith,      \* the args handed to puppeteer.launch
    pageLive,          \* the session's page id names a live page
    i,                 \* loop index of the batch driver
    returnData,        \* execute's local 'returnData'
    page,              \* runAction's local 'page': "none", "open", "closed"
    pdfOptions,        \* the options runAction handed to page.pdf
    pending,           \* what runAction's try block is returning/throwing
    inflight,          \* the item error propagating out of the loop, or ""
    calls,             \* the calls the invocation has made, in order
    response,          \* the manager's response to start: {} or {response}
    outcome,           \* how execute ended: Returned(..) or Threw(..)
    sessionLife,       \* history: what start and stop have done so far
    startHistory       \* history: the session ids start has stored

vars == << puppeteerSession, pc, operation, cfg, startSlot, session,
           isManualSession, launchedWith, pageLive, i, returnData, page,
           pdfOptions, pending, inflight, calls, response, outcome,
           sessionLife, startHistory >>

batchVars == << session, isManualSession, launchedWith, pageLive, i,
                returnData, page, pdfOptions, pending, inflight >>

Init ==
    /\ puppeteerSession = {}
    /\ pc = "idle"
    /\ operation = "none"
    /\ cfg = DefaultCfg
    /\ startSlot = {}
    /\ session = {}
    /\ isManualSession = FALSE
    /\ launchedWith = <<>>
    /\ pageLive = FALSE
    /\ i = 0
    /\ returnData = <<>>
    /\ page = "none"
    /\ pdfOptions = NoPdfOptions
    /\ pending = Returned(<<>>)
    /\ inflight = ""
    /\ calls = <<>>
    /\ response = {}
    /\ outcome = Returned(<<>>)
    /\ sessionLife = "none"
    /\ startHistory = NoStartHistory

\* The locals of a batch invocation before it has resolved anything.
ResetBatch ==
    /\ session' = {}
    /\ isManualSession' = FALSE
    /\ launchedWith' = <<>>
    /\ pageLive' = FALSE
    /\ i' = 0
    /\ returnData' = <<>>
    /\ page' = "none"
    /\ pdfOptions' = NoPdfOptions
    /\ pending' = Returned(<<>>)
    /\ inflight' = ""

\* The workflow engine starts an invocation when none is running.
CanStart == pc = "idle"

\* ------------------------------------------------------ StartPersistent
\* Mutant: the descriptor keeps the page id where the endpoint belongs.
StartDescriptorSwapped(resp, managerUrl) ==
    [wsEndpoint |-> resp.pageId, pageId |-> resp.wsEndpoint,
     sessionId |-> resp.sessionId, browserManagerUrl |-> managerUrl]

StartDescriptor(resp, managerUrl) ==
    [wsEndpoint |-> resp.wsEndpoint, pageId |-> resp.pageId,
     sessionId |-> resp.sessionId, browserManagerUrl |-> managerUrl]

\* Mutant: a failed start leaves the slot empty.
SlotAfterStartOrEmpty(slot, ok, sessionData) ==
    IF ok THEN {sessionData} ELSE {}

\* Mutant: a stored descriptor is not overwritten.
SlotAfterStartKeepsFirst(slot, ok, sessionData) ==
    IF ok /\ slot = {} THEN {sessionData} ELSE slot

\* The slot once start's POST has settled: written only on success.
SlotAfterStart(slot, ok, sessionData) ==
    IF ok THEN {sessionData} ELSE slot

\* history: a successful start makes its session the latest one; the one
\* that was the latest until then is superseded.
HistoryAfterStart(h, ok, resp) ==
    IF ok
    THEN [latest |-> resp.sessionId, superseded |-> h.latest, stopped |-> ""]
    ELSE h

\* history: a successful start begins a session's life.
LifeAfterStart(life, ok) == IF ok THEN "started" ELSE life

\* execute, operation = startPersistentBrowser, up to the awaited POST.
StartPersistentBegin(sessionId, browserManagerUrl) ==
    /\ CanStart
    /\ pc' = "startHttp"
    /\ operation' = "startPersistentBrowser"
    /\ cfg' = [DefaultCfg EXCEPT !.sessionId = sessionId,
                                 !.browserManagerUrl = browserManagerUrl]
    /\ startSlot' = puppeteerSession
    /\ calls' = <<>>
    /\ response' = {}
    /\ outcome' = Returned(<<>>)
    /\ ResetBatch
    /\ UNCHANGED << puppeteerSession, sessionLife, startHistory >>

\* The POST <managerUrl>/start settles; the slot is written on success.
StartPersistentHttp(ok, resp) ==
    /\ pc = "startHttp"
    /\ pc' = "done"
    /\ calls' = Append(calls, Call("httpRequest", NoPair, cfg.sessionId,
                                   cfg.browserManagerUrl \o "/start", ok))
    /\ LET sessionData == StartDescriptor(resp, cfg.browserManagerUrl)
       IN /\ response' = IF ok THEN {resp} ELSE {}
          /\ puppeteerSession' = SlotAfterStart(puppeteerSession, ok,
                                                sessionData)
          /\ outcome' = IF ok THEN Returned(<<sessionData>>)
                        ELSE Threw("SessionStartFailure")
    /\ sessionLife' = LifeAfterStart(sessionLife, ok)
    /\ startHistory' = HistoryAfterStart(startHistory, ok, resp)
    /\ UNCHANGED << operation, cfg, startSlot >>
    /\ UNCHANGED batchVars

\* ------------------------------------------------------- StopPersistent
\* The session id and manager address stop uses: the slot's, else the
\* fallback parameters.
StopTarget(slot, stopSessionId, stopBrowserManagerUrl) ==
    IF slot # {}
    THEN [sessionId |-> Value(slot).sessionId,
          browserManagerUrl |-> Value(slot).browserManagerUrl]
    ELSE [sessionId |-> stopSessionId,
          browserManagerUrl |-> stopBrowserManagerUrl]

\* Mutant: stop gives up only when both values are missing.
NoSessionToStopBoth(target) ==
    target.sessionId = "" /\ target.browserManagerUrl = ""

NoSessionToStop(target) ==
    target.sessionId = "" \/ target.browserManagerUrl = ""

\* Mutant: the slot is deleted whether or not the POST succeeded.
SlotAfterStopAlways(slot, sess, ok) ==
    IF sess # {} THEN {} ELSE slot

\* The slot once stop's POST has settled: deleted when the POST succeeded
\* and the local 'session' had been read from the slot.
SlotAfterStop(slot, sess, ok) ==
    IF ok /\ sess # {} THEN {} ELSE slot

\* history: a successful stop that took its target from the slot stops
\* the latest session; the superseded one is remembered as it was.
HistoryAfterStop(h, ok, ambient) ==
    IF ok /\ ambient
    THEN [latest |-> "", superseded |-> h.superseded, stopped |-> h.latest]
    ELSE h

\* history: a successful stop that took its target from the slot ends the
\* session's life; a failed one is remembered while the session lives.
LifeAfterStop(life, ok, ambient) ==
    IF ~ambient THEN life
    ELSE IF ok THEN "stopped"
    ELSE IF life \in {"started", "stopFailed"} THEN "stopFailed"
    ELSE life

\* execute, operation = stopPersistentBrowser, up to the awaited POST.
StopPersistentBegin(stopSessionId, stopBrowserManagerUrl) ==
    /\ CanStart
    /\ operation' = "stopPersistentBrowser"
    /\ cfg' = [DefaultCfg EXCEPT !.stopSessionId = stopSessionId,
                    !.stopBrowserManagerUrl = stopBrowserManagerUrl]
    /\ startSlot' = puppeteerSession
    /\ calls' = <<>>
    /\ response' = {}
    /\ ResetBatch
    /\ LET target == StopTarget(puppeteerSession, stopSessionId,
                                stopBrowserManagerUrl)
       IN IF NoSessionToStop(target)
          THEN /\ pc' = "done"
               /\ outcome' = Threw("NoSessionToStop")
          ELSE /\ pc' = "stopHttp"
               /\ outcome' = Returned(<<>>)
    /\ UNCHANGED << puppeteerSession, sessionLife, startHistory >>

\* The POST <managerUrl>/stop settles; the slot is deleted on success when
\* the local 'session' was read from it.
StopPersistentHttp(ok) ==
    /\ pc = "stopHttp"
    /\ pc' = "done"
    /\ LET target == StopTarget(startSlot, cfg.stopSessionId,
                                cfg.stopBrowserManagerUrl)
       IN calls' = Append(calls, Call("httpRequest", NoPair, target.sessionId,
                                      target.browserManagerUrl \o "/stop", ok))
    /\ puppeteerSession' = SlotAfterStop(puppeteerSession, startSlot, ok)
    /\ outcome' = IF ok
                  THEN Returned(<<[message |-> "Session stopped."]>>)
                  ELSE Threw("SessionStopFailure")
    /\ sessionLife' = LifeAfterStop(sessionLife, ok, startSlot # {})
    /\ startHistory' = HistoryAfterStop(startHistory, ok, startSlot # {})
    /\ UNCHANGED << operation, cfg, startSlot, response >>
    /\ UNCHANGED batchVars

\* --------------------------------------------------- session resolution
ManualDescriptor(manualWsEndpoint, manualPageId) ==
    [wsEndpoint |-> manualWsEndpoint, pageId |-> manualPageId,
     sessionId |-> "manual-override", browserManagerUrl |-> ""]

\* Mutant: the manual override wins over the slot.
UsesManualOverrideFirst(slot, manualSessionOverride) ==
    manualSessionOverride

\* The manual override is looked at only when the slot is empty.
UsesManualOverride(slot, manualSessionOverride) ==
    slot = {} /\ manualSessionOverride

\* Mutant: the override is rejected only when both fields are missing.
IncompleteManualOverrideBoth(manualWsEndpoint, manualPageId) ==
    manualWsEndpoint = "" /\ manualPageId = ""

IncompleteManualOverride(manualWsEndpoint, manualPageId) ==
    manualWsEndpoint = "" \/ manualPageId = ""

\* execute's local 'session' once the override has been looked at.
ResolveSession(slot, manualSessionOverride, manualWsEndpoint, manualPageId) ==
    IF UsesManualOverride(slot, manualSessionOverride)
    THEN {ManualDescriptor(manualWsEndpoint, manualPageId)}
    ELSE slot

Includes(args, arg) == \E k \in 1..Len(args) : args[k] = arg

\* Mutant: every recommended argument counts as missing.
MissingArgsAll(launchArgs) == CONTAINER_LAUNCH_ARGS

MissingArgs(launchArgs) ==
    SelectSeq(CONTAINER_LAUNCH_ARGS, LAMBDA arg : ~Includes(launchArgs, arg))

BuildLaunchArgs(launchArguments, addContainerArgs) ==
    IF addContainerArgs
    THEN launchArguments \o MissingArgs(launchArguments)
    ELSE launchArguments

\* Where the batch loop stands once item idx - 1 is dealt with.
LoopPc(idx, n) == IF idx < n THEN "loop" ELSE "teardown"

\* execute for an action or script operation, up to the awaited connect or
\* launch: reads the items, the slot and the manual override.
ExecBegin(op, continueOnFail, n, mso, manualWsEndpoint, manualPageId) ==
    /\ CanStart
    /\ ~mso => manualWsEndpoint = "" /\ manualPageId = ""
    /\ operation' = op
    /\ cfg' = [DefaultCfg EXCEPT !.continueOnFail = continueOnFail,
                    !.n = n,
                    !.manualSessionOverride = mso,
                    !.manualWsEndpoint = manualWsEndpoint,
                    !.manualPageId = manualPageId]
    /\ startSlot' = puppeteerSession
    /\ calls' = <<>>
    /\ response' = {}
    /\ launchedWith' = <<>>
    /\ pageLive' = FALSE
    /\ i' = 0
    /\ returnData' = <<>>
    /\ page' = "none"
    /\ pdfOptions' = NoPdfOptions
    /\ pending' = Returned(<<>>)
    /\ inflight' = ""
    /\ isManualSession' = UsesManualOverride(puppeteerSession, mso)
    /\ IF /\ UsesManualOverride(puppeteerSession, mso)
          /\ IncompleteManualOverride(manualWsEndpoint, manualPageId)
       THEN /\ session' = {}
            /\ pc' = "done"
            /\ outcome' = Threw("IncompleteManualOverride")
       ELSE /\ session' = ResolveSession(puppeteerSession, mso,
                                         manualWsEndpoint, manualPageId)
            /\ pc' = "resolve"
            /\ outcome' = Returned(<<>>)
    /\ UNCHANGED << puppeteerSession, sessionLife, startHistory >>

\* Mutant: a failed connect or launch is followed by the batch loop.
AfterResolveGoesOn(ok, n) == LoopPc(0, n)

\* Where execute stands once connect or launch has settled: a failure is
\* thrown out of execute, before the batch loop.
AfterResolve(ok, n) == IF ok THEN LoopPc(0, n) ELSE "done"

\* puppeteer.connect or puppeteer.launch settles; the launch arguments are
\* read from the options when there is no session.
ExecResolve(ok, live, launchArguments, addContainerArgs) ==
    /\ pc = "resolve"
    /\ IF session # {}
       THEN /\ launchArguments = <<>> /\ ~addContainerArgs
            /\ ~ok => ~live
            /\ calls' = Append(calls, Call("connect", NoPair,
                                           Value(session).wsEndpoint, "", ok))
            /\ launchedWith' = launchedWith
            /\ cfg' = cfg
            /\ pageLive' = live
            /\ outcome' = IF ok THEN outcome ELSE Threw("ConnectFailure")
       ELSE /\ ~live
            /\ calls' = Append(calls, Call("launch", NoPair, "", "", ok))
            /\ launchedWith' = BuildLaunchArgs(launchArguments,
                                               addContainerArgs)
            /\ cfg' = [cfg EXCEPT !.launchArguments = launchArguments,
                                  !.addContainerArgs = addContainerArgs]
            /\ pageLive' = FALSE
            /\ outcome' = IF ok THEN outcome ELSE Threw("LaunchFailure")
    /\ pc' = AfterResolve(ok, cfg.n)
    /\ UNCHANGED << sessionLife, startHistory >>
    /\ UNCHANGED << puppeteerSession, operation, startSlot, session,
                    isManualSession, i, returnData, page, pdfOptions,
                    pending, inflight, response >>

\* ------------------------------------------------------------ runAction
ErrorRecord(idx, message) == Record("error", idx, idx, "", message)

\* Mutant: the first failure without continue-on-failure ends execute on
\* the spot, without the teardown.
ItemOutcomeSkipsTeardown(rd, idx, n, continueOnFail, res) ==
    IF ~res.threw
    THEN [returnData |-> rd \o res.recs, i |-> idx + 1,
          pc |-> LoopPc(idx + 1, n), inflight |-> ""]
    ELSE IF continueOnFail
    THEN [returnData |-> Append(rd, ErrorRecord(idx, res.error)),
          i |-> idx + 1, pc |-> LoopPc(idx + 1, n), inflight |-> ""]
    ELSE [returnData |-> rd, i |-> idx, pc |-> "done",
          inflight |-> res.error]

\* Mutant: an item's records are put in front of the earlier ones.
ItemOutcomePrepends(rd, idx, n, continueOnFail, res) ==
    IF ~res.threw
    THEN [returnData |-> res.recs \o rd, i |-> idx + 1,
          pc |-> LoopPc(idx + 1, n), inflight |-> ""]
    ELSE IF continueOnFail
    THEN [returnData |-> <<ErrorRecord(idx, res.error)>> \o rd,
          i |-> idx + 1, pc |-> LoopPc(idx + 1, n), inflight |-> ""]
    ELSE [returnData |-> rd, i |-> idx, pc |-> "teardown",
          inflight |-> res.error]

\* Mutant: the loop goes on to the next item after rethrowing.
ItemOutcomeGoesOn(rd, idx, n, continueOnFail, res) ==
    IF ~res.threw
    THEN [returnData |-> rd \o res.recs, i |-> idx + 1,
          pc |-> LoopPc(idx + 1, n), inflight |-> ""]
    ELSE IF continueOnFail
    THEN [returnData |-> Append(rd, ErrorRecord(idx, res.error)),
          i |-> idx + 1, pc |-> LoopPc(idx + 1, n), inflight |-> ""]
    ELSE [returnData |-> rd, i |-> idx + 1, pc |-> LoopPc(idx + 1, n),
          inflight |-> res.error]

\* The batch loop's handling of what runAction returned or threw for item
\* idx: push the results, push an error record, or rethrow.
ItemOutcome(rd, idx, n, continueOnFail, res) ==
    IF ~res.threw
    THEN [returnData |-> rd \o res.recs, i |-> idx + 1,
          pc |-> LoopPc(idx + 1, n), inflight |-> ""]
    ELSE IF continueOnFail
    THEN [returnData |-> Append(rd, ErrorRecord(idx, res.error)),
          i |-> idx + 1, pc |-> LoopPc(idx + 1, n), inflight |-> ""]
    ELSE [returnData |-> rd, i |-> idx, pc |-> "teardown",
          inflight |-> res.error]

AfterItem(res) ==
    LET o == ItemOutcome(returnData, i, cfg.n, cfg.continueOnFail, res)
    IN /\ returnData' = o.returnData
       /\ i' = o.i
       /\ pc' = o.pc
       /\ inflight' = o.inflight

\* Mutant: with no matching page the lookup settles for another page.
FoundPageAny(ok, live) == ok

\* pages.find: the lookup returned and a page has the session's page id.
FoundPage(ok, live) == ok /\ live

\* runAction up to its try block: find the session's page or open one.
RunActionPage(ok) ==
    /\ pc = "loop"
    /\ pdfOptions' = NoPdfOptions
    /\ pending' = Returned(<<>>)
    /\ IF session # {}
       THEN /\ calls' = Append(calls, Call("pages", i,
                                           Value(session).pageId, "", ok))
            /\ IF FoundPage(ok, pageLive)
               THEN /\ page' = "open"
                    /\ pc' = "body"
                    /\ UNCHANGED << returnData, i, inflight >>
               ELSE /\ page' = "none"
                    /\ AfterItem(Threw(IF ok THEN "PageNotFound"
                                             ELSE "PagesError"))
       ELSE /\ calls' = Append(calls, Call("newPage", i, "", "", ok))
            /\ IF ok
               THEN /\ page' = "open"
                    /\ pc' = "body"
                    /\ UNCHANGED << returnData, i, inflight >>
               ELSE /\ page' = "none"
                    /\ AfterItem(Threw("NewPageError"))
    /\ UNCHANGED << sessionLife, startHistory >>
    /\ UNCHANGED << puppeteerSession, operation, cfg, startSlot, session,
                    isManualSession, launchedWith, pageLive, response,
                    outcome >>

\* Mutant: the records get the page id the slot holds when they are made.
StampFromSlot(recs, sess) ==
    IF puppeteerSession # {}
    THEN [k \in 1..Len(recs) |->
             [recs[k] EXCEPT !.pageId = Value(puppeteerSession).pageId]]
    ELSE recs

\* Mutant: the records are returned as they are.
StampNothing(recs, sess) == recs

\* json.pageId is set on every record when a session is in use.
Stamp(recs, sess) ==
    IF sess # {}
    THEN [k \in 1..Len(recs) |->
             [recs[k] EXCEPT !.pageId = Value(sess).pageId]]
    ELSE recs

ScriptRecords(idx, k) ==
    [j \in 1..k |-> Record("script", idx, NoPair, "", "")]

\* The PDFOptions runAction builds from the parameters it reads.
BuildPdfOptions(preferCSSPageSize, height, width, format) ==
    [called |-> TRUE,
     preferCSSPageSize |-> preferCSSPageSize,
     height |-> IF preferCSSPageSize THEN "" ELSE height,
     width |-> IF preferCSSPageSize THEN "" ELSE width,
     format |-> IF ~preferCSSPageSize /\ (height = "" \/ width = "")
                THEN format ELSE ""]

\* The try block in script mode: the script runs in the sandbox, may close
\* the page it was given, and returns an array, something else, or throws.
RunScript(result, k, closes) ==
    /\ operation = "runCustomScript"
    /\ result \in {"array", "nonArray", "throw"}
    /\ result # "array" => k = 0
    /\ calls' = Append(calls, Call("vm.run", i, result, "", result # "throw"))
                  \o (IF closes
                      THEN <<Call("script.page.close", i, "", "", TRUE)>>
                      ELSE <<>>)
    /\ page' = IF closes THEN "closed" ELSE page
    /\ pageLive' = IF closes /\ session # {} THEN FALSE ELSE pageLive
    /\ pdfOptions' = pdfOptions
    /\ pending' = CASE result = "throw" -> Threw("ScriptError")
                    [] result = "nonArray" -> Threw("InvalidScriptReturn")
                    [] OTHER -> Returned(Stamp(ScriptRecords(i, k), session))

\* The try block for getPageContent, getScreenshot and getPDF.
RunNavigate(urlValid, gotoOk, captureOk, preferCSS, height, width, format) ==
    /\ operation \in ActionOps
    /\ ~urlValid => gotoOk
    /\ ~(urlValid /\ gotoOk) => captureOk
    /\ ~(urlValid /\ gotoOk /\ operation = "getPDF") =>
           /\ preferCSS
           /\ height = "" /\ width = "" /\ format = ""
    /\ page' = page
    /\ pageLive' = pageLive
    /\ IF ~urlValid
       THEN /\ calls' = calls
            /\ pdfOptions' = pdfOptions
            /\ pending' = Threw("InvalidURL")
       ELSE IF ~gotoOk
       THEN /\ calls' = Append(calls, Call("goto", i, "", "", FALSE))
            /\ pdfOptions' = pdfOptions
            /\ pending' = Threw("NavigationError")
       ELSE LET capture == CASE operation = "getPageContent" -> "content"
                             [] operation = "getScreenshot" -> "screenshot"
                             [] OTHER -> "pdf"
            IN /\ calls' = calls \o << Call("goto", i, "", "", TRUE),
                                       Call(capture, i, "", "", captureOk) >>
               /\ pdfOptions' =
                     IF operation = "getPDF"
                     THEN BuildPdfOptions(preferCSS, height, width, format)
                     ELSE pdfOptions
               /\ pending' =
                     IF captureOk
                     THEN Returned(Stamp(<<Record(capture, i, i, "", "")>>,
                                         session))
                     ELSE Threw("CaptureError")

\* runAction's try block for item i.
RunActionBody ==
    /\ pc = "body"
    /\ pc' = "finally"
    /\ \/ \E result \in {"array", "nonArray", "throw"},
             k \in 0..MaxScriptItems, closes \in BOOLEAN :
               RunScript(result, k, closes)
       \/ \E urlValid, gotoOk, captureOk, preferCSS \in BOOLEAN,
             height \in {"", "11in"}, width \in {"", "8in"},
             format \in {"", "A4"} :
               RunNavigate(urlValid, gotoOk, captureOk, preferCSS, height,
                           width, format)
    /\ UNCHANGED << sessionLife, startHistory >>
    /\ UNCHANGED << puppeteerSession, operation, cfg, startSlot, session,
                    isManualSession, launchedWith, i, returnData, inflight,
                    response, outcome >>

\* Mutant: the finally block closes any open page, attached ones too.
ShouldClosePageAny(sess, pg) == pg = "open"

\* runAction's finally block closes a page it created and that is still
\* open.
ShouldClosePage(sess, pg) == sess = {} /\ pg = "open"

\* runAction's finally block for item i, then the batch loop's handling of
\* the item's result.
RunActionFinally(closeOk) ==
    /\ pc = "finally"
    /\ IF ShouldClosePage(session, page)
       THEN /\ calls' = Append(calls, Call("page.close", i, "", "", closeOk))
            /\ page' = IF closeOk THEN "closed" ELSE page
            /\ AfterItem(IF closeOk THEN pending ELSE Threw("PageCloseError"))
       ELSE /\ closeOk
            /\ calls' = calls
            /\ page' = page
            /\ AfterItem(pending)
    /\ UNCHANGED << sessionLife, startHistory >>
    /\ UNCHANGED << puppeteerSession, operation, cfg, startSlot, session,
                    isManualSession, launchedWith, pageLive, pdfOptions,
                    pending, response, outcome >>

\* ------------------------------------------------------------- teardown
\* Mutant: a manual-override browser is closed like a launched one.
TeardownCallClosesManual(sess, manual) ==
    IF sess # {} /\ ~manual THEN "browser.disconnect" ELSE "browser.close"

TeardownCall(sess, manual) ==
    IF sess # {} /\ ~manual THEN "browser.disconnect"
    ELSE IF sess # {} /\ manual THEN "browser.disconnect"
    ELSE "browser.close"

\* How execute ends once the teardown call has settled.
FinalOutcome(teardownOk, itemError, rd) ==
    IF ~teardownOk THEN Threw("TeardownError")
    ELSE IF itemError # "" THEN Threw(itemError)
    ELSE Returned(rd)

\* Mutant: the teardown also deletes the stored session.
ExecTeardownClearsSlot(ok) ==
    /\ pc = "teardown"
    /\ pc' = "done"
    /\ calls' = Append(calls, Call(TeardownCall(session, isManualSession),
                                   NoPair, "", "", ok))
    /\ outcome' = FinalOutcome(ok, inflight, returnData)
    /\ puppeteerSession' = {}
    /\ UNCHANGED << operation, cfg, startSlot, session, isManualSession,
                    launchedWith, pageLive, i, returnData, page, pdfOptions,
                    pending, inflight, response, sessionLife,
                    startHistory >>

\* execute's finally block: disconnect or close, then return or throw.
ExecTeardown(ok) ==
    /\ pc = "teardown"
    /\ pc' = "done"
    /\ calls' = Append(calls, Call(TeardownCall(session, isManualSession),
                                   NoPair, "", "", ok))
    /\ outcome' = FinalOutcome(ok, inflight, returnData)
    /\ UNCHANGED << sessionLife, startHistory >>
    /\ UNCHANGED << puppeteerSession, operation, cfg, startSlot, session,
                    isManualSession, launchedWith, pageLive, i, returnData,
                    page, pdfOptions, pending, inflight, response >>

\* ------------------------------------------------------ workflow engine
\* The engine has taken what execute returned or threw; nothing of the
\* invocation survives but the workflow static data.
Finish ==
    /\ pc = "done"
    /\ pc' = "idle"
    /\ operation' = "none"
    /\ cfg' = DefaultCfg
    /\ startSlot' = {}
    /\ calls' = <<>>
    /\ response' = {}
    /\ outcome' = Returned(<<>>)
    /\ ResetBatch
    /\ UNCHANGED << puppeteerSession, sessionLife, startHistory >>

\* -------------------------------------------------------- specification
Next ==
    \/ \E sessionId \in SessionIdParams, url \in ManagerUrlParams :
          StartPersistentBegin(sessionId, url)
    \/ \E ok \in BOOLEAN, resp \in Responses : StartPersistentHttp(ok, resp)
    \/ \E sessionId \in StopSessionIdParams, url \in StopManagerUrlParams :
          StopPersistentBegin(sessionId, url)
    \/ \E ok \in BOOLEAN : StopPersistentHttp(ok)
    \/ \E op \in BatchOps, continueOnFail \in BOOLEAN, n \in 0..MaxItems,
          mso \in BOOLEAN, manualWsEndpoint \in ManualEndpointParams,
          manualPageId \in ManualPageIdParams :
          ExecBegin(op, continueOnFail, n, mso, manualWsEndpoint,
                    manualPageId)
    \/ \E ok, live, addContainerArgs \in BOOLEAN,
          launchArguments \in LaunchArgumentParams :
          ExecResolve(ok, live, launchArguments, addContainerArgs)
    \/ \E ok \in BOOLEAN : RunActionPage(ok)
    \/ RunActionBody
    \/ \E closeOk \in BOOLEAN : RunActionFinally(closeOk)
    \/ \E ok \in BOOLEAN : ExecTeardown(ok)
    \/ Finish

Spec == Init /\ [][Next]_vars

\* ------------------------------------- specification of the launch path
\* The launch arguments a user may supply: the recommended container
\* arguments and one of the user's own, in any order, repeats included.
UserArgs == {CONTAINER_LAUNCH_ARGS[k] : k \in 1..Len(CONTAINER_LAUNCH_ARGS)}
                \cup {"--user-arg"}
UserArgLists == UNION {[1..m -> UserArgs] : m \in 0..MaxArgs}

\* execute stands before puppeteer.launch: an action or script invocation
\* that found the slot empty and no manual override.
InitArgs ==
    /\ puppeteerSession = {}
    /\ pc = "resolve"
    /\ operation \in BatchOps
    /\ cfg \in {[DefaultCfg EXCEPT !.n = n] : n \in 0..1}
    /\ startSlot = {}
    /\ session = {}
    /\ isManualSession = FALSE
    /\ launchedWith = <<>>
    /\ pageLive = FALSE
    /\ i = 0
    /\ returnData = <<>>
    /\ page = "none"
    /\ pdfOptions = NoPdfOptions
    /\ pending = Returned(<<>>)
    /\ inflight = ""
    /\ calls = <<>>
    /\ response = {}
    /\ outcome = Returned(<<>>)
    /\ sessionLife = "none"
    /\ startHistory = NoStartHistory

NextArgs ==
    \E ok, addContainerArgs \in BOOLEAN, launchArguments \in UserArgLists :
        ExecResolve(ok, FALSE, launchArguments, addContainerArgs)

SpecArgs == InitArgs /\ [][NextArgs]_vars

\* ------------------------------------------ specification with fairness
\* Every awaited external call eventually returns or throws: the step that
\* follows each await is taken once it is enabled. When the engine starts
\* an invocation, and when it takes the result, is left open.
Fairness ==
    /\ WF_vars(\E ok \in BOOLEAN, resp \in Responses :
                  StartPersistentHttp(ok, resp))
    /\ WF_vars(\E ok \in BOOLEAN : StopPersistentHttp(ok))
    /\ WF_vars(\E ok, live, addContainerArgs \in BOOLEAN,
                  launchArguments \in LaunchArgumentParams :
                  ExecResolve(ok, live, launchArguments, addContainerArgs))
    /\ WF_vars(\E ok \in BOOLEAN : RunActionPage(ok))
    /\ WF_vars(RunActionBody)
    /\ WF_vars(\E closeOk \in BOOLEAN : RunActionFinally(closeOk))
    /\ WF_vars(\E ok \in BOOLEAN : ExecTeardown(ok))

\* One invocation, started with the slot empty or holding a session.
InitLive ==
    /\ puppeteerSession \in
          {{}} \cup {{StartDescriptor(resp, "http://m1")} : resp \in Responses}
    /\ pc = "idle"
    /\ operation = "none"
    /\ cfg = DefaultCfg
    /\ startSlot = {}
    /\ session = {}
    /\ isManualSession = FALSE
    /\ launchedWith = <<>>
    /\ pageLive = FALSE
    /\ i = 0
    /\ returnData = <<>>
    /\ page = "none"
    /\ pdfOptions = NoPdfOptions
    /\ pending = Returned(<<>>)
    /\ inflight = ""
    /\ calls = <<>>
    /\ response = {}
    /\ outcome = Returned(<<>>)
    /\ sessionLife = IF puppeteerSession = {} THEN "none" ELSE "started"
    /\ startHistory =
          IF puppeteerSession = {} THEN NoStartHistory
          ELSE [NoStartHistory EXCEPT
                   !.latest = Value(puppeteerSession).sessionId]

NextLive ==
    \/ \E sessionId \in SessionIdParams, url \in ManagerUrlParams :
          StartPersistentBegin(sessionId, url)
    \/ \E ok \in BOOLEAN, resp \in Responses : StartPersistentHttp(ok, resp)
    \/ \E sessionId \in StopSessionIdParams, url \in StopManagerUrlParams :
          StopPersistentBegin(sessionId, url)
    \/ \E ok \in BOOLEAN : StopPersistentHttp(ok)
    \/ \E op \in BatchOps, continueOnFail \in BOOLEAN, n \in 0..MaxItems,
          mso \in BOOLEAN, manualWsEndpoint \in ManualEndpointParams,
          manualPageId \in ManualPageIdParams :
          ExecBegin(op, continueOnFail, n, mso, manualWsEndpoint,
                    manualPageId)
    \/ \E ok, live, addContainerArgs \in BOOLEAN,
          launchArguments \in LaunchArgumentParams :
          ExecResolve(ok, live, launchArguments, addContainerArgs)
    \/ \E ok \in BOOLEAN : RunActionPage(ok)
    \/ RunActionBody
    \/ \E closeOk \in BOOLEAN : RunActionFinally(closeOk)
    \/ \E ok \in BOOLEAN : ExecTeardown(ok)

SpecLive == InitLive /\ [][NextLive]_vars /\ Fairness

\* ------------------------ specification of a batch racing start and stop
\* Another invocation of the same workflow scope runs while a batch is
\* between two of its awaited calls; what the batch can see of it is the
\* other invocation's write to the slot.
BatchInProgress ==
    operation \in BatchOps /\ pc \in {"resolve", "loop", "body", "finally",
                                       "teardown"}

\* A concurrent stop that read the stored session has its POST succeed and
\* deletes the slot.
ConcurrentStopSettles ==
    /\ BatchInProgress
    /\ puppeteerSession # {}
    /\ puppeteerSession' = SlotAfterStop(puppeteerSession, puppeteerSession,
                                         TRUE)
    /\ sessionLife' = LifeAfterStop(sessionLife, TRUE, TRUE)
    /\ startHistory' = HistoryAfterStop(startHistory, TRUE, TRUE)
    /\ UNCHANGED << pc, operation, cfg, startSlot, calls, response, outcome >>
    /\ UNCHANGED batchVars

\* A concurrent start has its POST succeed and writes the slot.
ConcurrentStartSettles(resp, browserManagerUrl) ==
    /\ BatchInProgress
    /\ puppeteerSession' =
          SlotAfterStart(puppeteerSession, TRUE,
                         StartDescriptor(resp, browserManagerUrl))
    /\ sessionLife' = LifeAfterStart(sessionLife, TRUE)
    /\ startHistory' = HistoryAfterStart(startHistory, TRUE, resp)
    /\ UNCHANGED << pc, operation, cfg, startSlot, calls, response, outcome >>
    /\ UNCHANGED batchVars

\* No invocation is running and an earlier start has stored a session.
InitRace ==
    /\ puppeteerSession \in
          {{StartDescriptor(resp, "http://m1")} : resp \in Responses}
    /\ pc = "idle"
    /\ operation = "none"
    /\ cfg = DefaultCfg
    /\ startSlot = {}
    /\ session = {}
    /\ isManualSession = FALSE
    /\ launchedWith = <<>>
    /\ pageLive = FALSE
    /\ i = 0
    /\ returnData = <<>>
    /\ page = "none"
    /\ pdfOptions = NoPdfOptions
    /\ pending = Returned(<<>>)
    /\ inflight = ""
    /\ calls = <<>>
    /\ response = {}
    /\ outcome = Returned(<<>>)
    /\ sessionLife = "started"
    /\ startHistory = [NoStartHistory EXCEPT
                          !.latest = Value(puppeteerSession).sessionId]

NextRace ==
    \/ \E op \in BatchOps, continueOnFail \in BOOLEAN, n \in 0..MaxItems :
          ExecBegin(op, continueOnFail, n, FALSE, "", "")
    \/ \E ok, live \in BOOLEAN : ExecResolve(ok, live, <<>>, FALSE)
    \/ \E ok \in BOOLEAN : RunActionPage(ok)
    \/ RunActionBody
    \/ \E closeOk \in BOOLEAN : RunActionFinally(closeOk)
    \/ \E ok \in BOOLEAN : ExecTeardown(ok)
    \/ ConcurrentStopSettles
    \/ \E resp \in Responses : ConcurrentStartSettles(resp, "http://m1")

SpecRace == InitRace /\ [][NextRace]_vars

\* ----------------------------------------------------------- properties
IsBatch == operation \in BatchOps

CallsNamed(name) == {k \in 1..Len(calls) : calls[k].call = name}
CountCalls(name) == Cardinality(CallsNamed(name))
Succeeded(name) == \E k \in CallsNamed(name) : calls[k].ok
Teardowns == CountCalls("browser.close") + CountCalls("browser.disconnect")

\* Item j's runAction has returned or thrown.
Finished(j) == j < i \/ (j = i /\ pc \in {"teardown", "done"})
NewPageOpened(j) ==
    \E k \in CallsNamed("newPage") : calls[k].item = j /\ calls[k].ok
ClosedByScript(j) ==
    \E k \in CallsNamed("script.page.close") : calls[k].item = j
PageCloses(j) ==
    Cardinality({k \in CallsNamed("page.close") : calls[k].item = j})
HasErrorRecord(recs) == \E k \in 1..Len(recs) : recs[k].kind = "error"

\* C1: an action/script invocation whose connect or launch succeeded makes
\* exactly one teardown call before execute ends: close (and never
\* disconnect) on a launched browser, disconnect (and never close) on a
\* connected one, ambient or manual; no teardown call is made earlier and
\* never a second one.
C1_ExactlyOneTeardown ==
    IsBatch =>
      /\ Teardowns <= 1
      /\ pc # "done" => Teardowns = 0
      /\ (pc = "done" /\ Succeeded("launch")) =>
            /\ CountCalls("browser.close") = 1
            /\ CountCalls("browser.disconnect") = 0
      /\ (pc = "done" /\ Succeeded("connect")) =>
            /\ CountCalls("browser.disconnect") = 1
            /\ CountCalls("browser.close") = 0

C1_Witness ==
    /\ IsBatch /\ pc = "done" /\ isManualSession /\ cfg.n = 2
    /\ cfg.continueOnFail /\ HasErrorRecord(returnData)
    /\ CountCalls("browser.disconnect") = 1

\* C2: when the slot holds a descriptor at the start of an action/script
\* invocation, whatever the manual override says, the invocation connects
\* to that descriptor's endpoint and never launches.
C2_AmbientSessionConnects ==
    (IsBatch /\ startSlot # {}) =>
      /\ session = startSlot
      /\ CountCalls("launch") = 0
      /\ \A k \in CallsNamed("connect") :
            calls[k].arg = Value(startSlot).wsEndpoint
      /\ pc # "resolve" => CountCalls("connect") = 1

C2_Witness ==
    /\ IsBatch /\ startSlot # {} /\ pc = "done"
    /\ cfg.manualSessionOverride /\ cfg.manualWsEndpoint = "ws://m"
    /\ cfg.manualPageId = "p9"
    /\ Succeeded("connect")

\* C3: a page opened with newPage is closed exactly once by the time
\* runAction has returned or thrown for its item, and before any work on a
\* later item, unless the script had closed it already, in which case close
\* is not called; a page attached by page id is never closed.
C3_PageReleaseFollowsProvenance ==
    IsBatch =>
      /\ \A j \in 0..(cfg.n - 1) :
            /\ PageCloses(j) <= 1
            /\ ~NewPageOpened(j) => PageCloses(j) = 0
            /\ (Finished(j) /\ NewPageOpened(j)) =>
                  PageCloses(j) = IF ClosedByScript(j) THEN 0 ELSE 1
      /\ session # {} => CountCalls("page.close") = 0
      /\ \A k \in CallsNamed("page.close"), l \in 1..Len(calls) :
            calls[l].item > calls[k].item => k < l

C3_Witness ==
    /\ IsBatch /\ pc = "done" /\ session = {} /\ cfg.n = 2
    /\ \E k \in 1..Len(returnData) :
          returnData[k].src = 0 /\ returnData[k].error = "InvalidURL"
    /\ NewPageOpened(0) /\ PageCloses(0) = 1
    /\ NewPageOpened(1) /\ PageCloses(1) = 1

\* C4 (as claimed): with continue-on-failure on, an action-mode invocation
\* over N items whose browser was obtained ends by returning exactly N
\* records in input order, one per item and paired to it, after one
\* teardown.
C4_OneRecordPerItem ==
    (operation \in ActionOps /\ cfg.continueOnFail /\ pc = "done"
       /\ (Succeeded("launch") \/ Succeeded("connect"))) =>
      /\ ~outcome.threw
      /\ Len(outcome.recs) = cfg.n
      /\ \A j \in 1..Len(outcome.recs) :
            /\ outcome.recs[j].src = j - 1
            /\ outcome.recs[j].pairedItem = j - 1
      /\ Teardowns = 1

\* C5: with continue-on-failure off, the first item failure stops the loop
\* at once: no call is made for a later item, nothing but the teardown
\* follows, execute throws and returns no records, and the teardown is
\* called once.
C5_FirstFailureStopsBatch ==
    (IsBatch /\ ~cfg.continueOnFail) =>
      /\ ~HasErrorRecord(returnData)
      /\ (operation \in ActionOps /\ inflight = ""
            /\ pc \in {"loop", "body", "finally", "teardown", "done"}) =>
               Len(returnData) = i
      /\ inflight # "" =>
            /\ pc \in {"teardown", "done"}
            /\ \A k \in 1..Len(calls) : calls[k].item <= i
            /\ pc = "teardown" => Teardowns = 0
            /\ pc = "done" =>
                  /\ outcome.threw
                  /\ outcome.recs = <<>>
                  /\ Teardowns = 1
                  /\ calls[Len(calls)].call \in
                        {"browser.close", "browser.disconnect"}

C5_Witness ==
    /\ IsBatch /\ ~cfg.continueOnFail /\ cfg.n = 2 /\ pc = "done"
    /\ i = 0 /\ inflight = "NavigationError"
    /\ outcome.threw /\ Teardowns = 1

\* C6 (as claimed): when an item error is propagating out of the loop, the
\* error execute ends with is that item error, also when the teardown call
\* fails.
C6_ItemErrorNotMasked ==
    (IsBatch /\ pc = "done" /\ inflight # "") => outcome = Threw(inflight)

ExactlyOneManualField ==
    (cfg.manualWsEndpoint = "") # (cfg.manualPageId = "")

\* C7 (as claimed): an action/script invocation with the manual override on
\* and exactly one of its two fields given fails with
\* IncompleteManualOverride without any connect or launch.
C7_IncompleteOverrideAlwaysFails ==
    (IsBatch /\ cfg.manualSessionOverride /\ ExactlyOneManualField) =>
      /\ pc = "done"
      /\ outcome = Threw("IncompleteManualOverride")
      /\ calls = <<>>

\* C7 (amended): the same, for an invocation that starts with an empty
\* slot; with a descriptor in the slot the override is not looked at.
C7_IncompleteOverrideFailsWithoutAmbient ==
    (IsBatch /\ cfg.manualSessionOverride /\ ExactlyOneManualField
       /\ startSlot = {}) =>
      /\ pc = "done"
      /\ outcome = Threw("IncompleteManualOverride")
      /\ calls = <<>>

C7_Witness ==
    /\ IsBatch /\ cfg.manualSessionOverride /\ startSlot = {}
    /\ cfg.manualWsEndpoint = "ws://m" /\ cfg.manualPageId = ""
    /\ pc = "done" /\ outcome = Threw("IncompleteManualOverride")

\* C8: stopPersistentBrowser with an empty slot and the fallback session id
\* or manager address missing (both missing included) fails with
\* NoSessionToStop, sends no request and leaves the slot as it was.
C8_NoSessionToStop ==
    (operation = "stopPersistentBrowser" /\ startSlot = {}
       /\ (cfg.stopSessionId = "" \/ cfg.stopBrowserManagerUrl = "")) =>
      /\ pc = "done"
      /\ outcome = Threw("NoSessionToStop")
      /\ calls = <<>>
      /\ puppeteerSession = startSlot

C8_Witness ==
    /\ operation = "stopPersistentBrowser" /\ startSlot = {}
    /\ cfg.stopSessionId = "" /\ cfg.stopBrowserManagerUrl = ""
    /\ outcome = Threw("NoSessionToStop") /\ puppeteerSession = {}

\* C9: stopPersistentBrowser empties the slot exactly when its stop request
\* succeeded and it had taken the session id and manager address from the
\* slot; after a failed request, or with the fallback parameters as the
\* source, the slot is what it was.
C9_StopClearsOnlyOnSuccess ==
    operation = "stopPersistentBrowser" =>
      /\ pc # "done" => puppeteerSession = startSlot
      /\ pc = "done" =>
            puppeteerSession =
               IF Succeeded("httpRequest") /\ startSlot # {}
               THEN {} ELSE startSlot
      /\ \A k \in CallsNamed("httpRequest") :
            calls[k].arg = IF startSlot # {}
                           THEN Value(startSlot).sessionId
                           ELSE cfg.stopSessionId

C9_Witness ==
    /\ operation = "stopPersistentBrowser" /\ pc = "done"
    /\ startSlot # {} /\ CountCalls("httpRequest") = 1
    /\ ~Succeeded("httpRequest") /\ puppeteerSession = startSlot

\* C10: a startPersistentBrowser whose request succeeded with
\* {wsEndpoint, pageId, sessionId} leaves in the slot exactly those three
\* values with the configured manager address, returns that descriptor as
\* its only record, and has made no call but the request.
C10_StartStoresDescriptor ==
    (operation = "startPersistentBrowser" /\ pc = "done" /\ response # {}) =>
      LET r == Value(response)
          d == [wsEndpoint |-> r.wsEndpoint, pageId |-> r.pageId,
                sessionId |-> r.sessionId,
                browserManagerUrl |-> cfg.browserManagerUrl]
      IN /\ puppeteerSession = {d}
         /\ outcome = Returned(<<d>>)
         /\ calls = << Call("httpRequest", NoPair, cfg.sessionId,
                            cfg.browserManagerUrl \o "/start", TRUE) >>

C10_Witness ==
    /\ operation = "startPersistentBrowser" /\ pc = "done"
    /\ startSlot # {} /\ response # {}
    /\ Value(response).sessionId = "s2" /\ cfg.sessionId = "s1"
    /\ cfg.browserManagerUrl = "http://m2"
    /\ Value(puppeteerSession).pageId = "p2"

AllRecords == returnData \o pending.recs \o outcome.recs

\* C11: an action/script invocation, with or without manual override, on
\* success and on every failure path, leaves the slot as it was when the
\* invocation started; a start only ever leaves its own descriptor or the
\* old value in the slot, a stop only the old value or nothing, so the
\* manual-override descriptor is never in the slot.
C11_OnlyStartAndStopTouchSlot ==
    /\ IsBatch => puppeteerSession = startSlot
    /\ operation = "stopPersistentBrowser" =>
          puppeteerSession \in {startSlot, {}}
    /\ operation = "startPersistentBrowser" =>
          \/ puppeteerSession = startSlot
          \/ /\ response # {}
             /\ Value(puppeteerSession).sessionId = Value(response).sessionId
    /\ \A d \in puppeteerSession : d.sessionId # "manual-override"

C11_Witness ==
    /\ IsBatch /\ pc = "done" /\ isManualSession /\ Succeeded("connect")
    /\ Value(session).sessionId = "manual-override"
    /\ cfg.n = 2 /\ ~outcome.threw
    /\ puppeteerSession = {} /\ startSlot = {}

\* C12 (as claimed): in an invocation attached to a session every record
\* of the output, error records of failed items included, has json.pageId
\* equal to the session's page id.
C12_EveryRecordStamped ==
    (IsBatch /\ session # {}) =>
       \A k \in 1..Len(AllRecords) :
          AllRecords[k].pageId = Value(session).pageId

\* C12 (amended): in an invocation attached to a session every record that
\* an action produced or a script returned has json.pageId equal to the
\* session's page id; the error record of a failed item has only the error
\* message and no pageId.
C12_ResultRecordsStamped ==
    (IsBatch /\ session # {}) =>
       \A k \in 1..Len(AllRecords) :
          /\ AllRecords[k].kind # "error" =>
                AllRecords[k].pageId = Value(session).pageId
          /\ AllRecords[k].kind = "error" => AllRecords[k].pageId = ""

C12_Witness ==
    /\ IsBatch /\ session # {} /\ ~isManualSession /\ pc = "done"
    /\ ~outcome.threw /\ Len(outcome.recs) = 2
    /\ outcome.recs[1].kind = "error" /\ outcome.recs[1].pageId = ""
    /\ outcome.recs[2].kind = "script" /\ outcome.recs[2].pageId = "p2"

Navigated(j) == \E k \in CallsNamed("goto") : calls[k].item = j /\ calls[k].ok

\* C13 (as claimed): a getPDF item that has navigated and whose options
\* have preferCSSPageSize false and neither a height, a width nor a format
\* fails with RenderOptionsInvalid, and page.pdf is not called for it.
C13_UnresolvablePdfRejected ==
    (operation = "getPDF" /\ pc = "finally" /\ Navigated(i)
       /\ ~pdfOptions.preferCSSPageSize
       /\ pdfOptions.height = "" /\ pdfOptions.width = ""
       /\ pdfOptions.format = "") =>
      /\ ~pdfOptions.called
      /\ \A k \in CallsNamed("pdf") : calls[k].item # i
      /\ pending = Threw("RenderOptionsInvalid")

\* The script of item j settled with a value that is not an array.
ReturnedNonArray(j) ==
    \E k \in CallsNamed("vm.run") :
       calls[k].item = j /\ calls[k].arg = "nonArray"
RecordsOf(j) == {k \in 1..Len(returnData) : returnData[k].src = j}

\* C14 (as claimed): an item whose script produced a value that is not an
\* array fails with InvalidScriptReturn and adds nothing derived from that
\* value to the output; with continue-on-failure on, its only record is the
\* error record of that failure.
C14_NonArrayIsInvalidScriptReturn ==
    operation = "runCustomScript" =>
       \A j \in 0..(cfg.n - 1) :
          (ReturnedNonArray(j) /\ Finished(j)) =>
             /\ \A k \in RecordsOf(j) : returnData[k].kind # "script"
             /\ cfg.continueOnFail =>
                   /\ Cardinality(RecordsOf(j)) = 1
                   /\ \A k \in RecordsOf(j) :
                         returnData[k] = ErrorRecord(j, "InvalidScriptReturn")
             /\ ~cfg.continueOnFail => inflight = "InvalidScriptReturn"

FailedResolve ==
    \E k \in CallsNamed("connect") \cup CallsNamed("launch") : ~calls[k].ok

\* C15: when connect (session or manual override) or launch (no session)
\* fails, execute throws ConnectFailure or LaunchFailure at once, also with
\* continue-on-failure on: the failed call is the only call made, no item
\* is started, no error record is made and nothing is returned.
C15_ResolveFailureIsFatal ==
    (IsBatch /\ FailedResolve) =>
      /\ pc = "done"
      /\ outcome = Threw(IF session # {} THEN "ConnectFailure"
                                         ELSE "LaunchFailure")
      /\ Len(calls) = 1
      /\ i = 0
      /\ returnData = <<>>

C15_Witness ==
    /\ IsBatch /\ FailedResolve /\ cfg.continueOnFail /\ cfg.n = 2
    /\ isManualSession /\ outcome = Threw("ConnectFailure")

\* C16: items are handled one at a time in index order: the calls made for
\* the items appear in the order of the items, no call is made for an item
\* before the loop has reached it, an item is started only after every
\* earlier item has finished including the closing of its page, and the
\* records in returnData are in the order of their source items.
C16_ItemsInOrder ==
    IsBatch =>
      /\ \A k, l \in 1..Len(calls) :
            (k < l /\ calls[k].item # NoPair /\ calls[l].item # NoPair) =>
               calls[k].item <= calls[l].item
      /\ \A k \in 1..Len(calls) :
            /\ calls[k].item <= i
            /\ calls[k].item < cfg.n
            /\ pc = "loop" => calls[k].item < i
      /\ pc \in {"loop", "body", "finally"} =>
            \A j \in 0..(i - 1) :
               (NewPageOpened(j) /\ ~ClosedByScript(j)) => PageCloses(j) = 1
      /\ \A k, l \in 1..Len(returnData) :
            k < l => returnData[k].src <= returnData[l].src
      /\ \A k \in 1..Len(returnData) :
            /\ returnData[k].src <= i
            /\ pc \in {"loop", "body", "finally"} => returnData[k].src < i

C16_Witness ==
    /\ IsBatch /\ pc = "body" /\ i = 1 /\ session = {}
    /\ Len(returnData) = 1 /\ returnData[1].src = 0
    /\ PageCloses(0) = 1
    /\ calls[Len(calls)] = Call("newPage", 1, "", "", TRUE)
    /\ calls[Len(calls) - 1] = Call("page.close", 0, "", "", TRUE)

\* How often arg stands in args.
Count(args, arg) == Cardinality({k \in 1..Len(args) : args[k] = arg})
Recommended == {CONTAINER_LAUNCH_ARGS[k] : k \in 1..Len(CONTAINER_LAUNCH_ARGS)}
Launched == Len(calls) = 1 /\ calls[1].call = "launch"
KeepsUserArgs ==
    /\ Len(launchedWith) >= Len(cfg.launchArguments)
    /\ SubSeq(launchedWith, 1, Len(cfg.launchArguments)) = cfg.launchArguments
AppendedArgs ==
    SubSeq(launchedWith, Len(cfg.launchArguments) + 1, Len(launchedWith))

\* C17 as stated: with the container-arguments flag set and a user list
\* that holds one or more recommended arguments, the list handed to launch
\* holds every recommended argument, holds no entry twice, keeps the user
\* arguments in order and appends only the missing recommended ones. It
\* fails for a user list that itself holds an argument twice.
C17_NoDuplicateEntry ==
    (/\ Launched /\ cfg.addContainerArgs
     /\ \E arg \in Recommended : Includes(cfg.launchArguments, arg)) =>
      /\ \A arg \in Recommended : Includes(launchedWith, arg)
      /\ \A k, l \in 1..Len(launchedWith) :
            launchedWith[k] = launchedWith[l] => k = l
      /\ KeepsUserArgs
      /\ AppendedArgs = MissingArgs(cfg.launchArguments)

\* C17: with the container-arguments flag set and a user list that holds
\* one or more recommended arguments, the list handed to launch starts with
\* the user arguments in their order, followed by exactly the recommended
\* arguments the user list lacks, once each in their declared order; so
\* every recommended argument is present, none is appended that the user
\* already supplied, and an entry stands twice only where the user list
\* itself repeats it.
C17_InjectionAddsNoDuplicate ==
    (/\ Launched /\ cfg.addContainerArgs
     /\ \E arg \in Recommended : Includes(cfg.launchArguments, arg)) =>
      /\ \A arg \in Recommended : Includes(launchedWith, arg)
      /\ KeepsUserArgs
      /\ \A arg \in Recommended :
            Count(AppendedArgs, arg) =
              IF Includes(cfg.launchArguments, arg) THEN 0 ELSE 1
      /\ \A k \in 1..Len(AppendedArgs) : AppendedArgs[k] \in Recommended
      /\ \A k, l \in 1..Len(AppendedArgs) :
            k < l =>
              \E a, b \in 1..Len(CONTAINER_LAUNCH_ARGS) :
                /\ a < b
                /\ CONTAINER_LAUNCH_ARGS[a] = AppendedArgs[k]
                /\ CONTAINER_LAUNCH_ARGS[b] = AppendedArgs[l]
      /\ \A arg \in UserArgs :
            Count(launchedWith, arg) =
              IF Includes(cfg.launchArguments, arg)
              THEN Count(cfg.launchArguments, arg) ELSE Count(AppendedArgs, arg)

\* The user gave a recommended argument after one of their own and the
\* other three recommended arguments were appended.
C17_Witness ==
    /\ Launched /\ cfg.addContainerArgs /\ calls[1].ok
    /\ cfg.launchArguments = <<"--user-arg", "--disable-gpu">>
    /\ launchedWith = <<"--user-arg", "--disable-gpu", "--no-sandbox",
                        "--disable-setuid-sandbox", "--disable-dev-shm-usage">>

\* The invocation is connected to a session whose page id named no live
\* page of the browser when it connected (no script of the invocation
\* closed the page).
NoLivePage ==
    /\ IsBatch /\ session # {} /\ Succeeded("connect") /\ ~pageLive
    /\ CountCalls("script.page.close") = 0
LookedUp(j) == \E k \in CallsNamed("pages") : calls[k].item = j /\ calls[k].ok

\* C18: in an invocation connected to a session whose page id matches no
\* live page, every item whose page lookup returned fails with PageNotFound
\* (captured as the item's one error record under continue-on-failure,
\* otherwise thrown out of the loop, which stops there); the only calls made
\* are the connect, one page lookup per item and the teardown, so nothing
\* is navigated, no script runs, no page is opened as a substitute and no
\* page is closed; the teardown call is one disconnect and never a close.
C18_MissingPageFailsEveryItem ==
    NoLivePage =>
      /\ \A k \in 1..Len(calls) :
            calls[k].call \in {"connect", "pages", "browser.disconnect"}
      /\ page = "none" /\ pc \notin {"body", "finally"}
      /\ \A j \in 0..(cfg.n - 1) :
            Cardinality({k \in CallsNamed("pages") : calls[k].item = j}) <= 1
      /\ \A j \in 0..(cfg.n - 1) :
            (Finished(j) /\ LookedUp(j)) =>
              IF cfg.continueOnFail
              THEN /\ Cardinality(RecordsOf(j)) = 1
                   /\ \A k \in RecordsOf(j) :
                         returnData[k] = ErrorRecord(j, "PageNotFound")
              ELSE /\ j = i /\ inflight = "PageNotFound"
                   /\ RecordsOf(j) = {}
      /\ pc = "done" =>
            /\ CountCalls("browser.disconnect") = 1
            /\ calls[Len(calls)].call = "browser.disconnect"
            /\ calls[Len(calls)].ok =>
                  outcome = IF inflight # "" THEN Threw(inflight)
                            ELSE Returned(returnData)

\* Both items of a continue-on-failure batch failed with PageNotFound and
\* the browser was disconnected.
C18_Witness ==
    /\ NoLivePage /\ pc = "done" /\ cfg.continueOnFail /\ cfg.n = 2
    /\ LookedUp(0) /\ LookedUp(1)
    /\ returnData = << ErrorRecord(0, "PageNotFound"),
                       ErrorRecord(1, "PageNotFound") >>
    /\ calls[Len(calls)].call = "browser.disconnect"

\* A successful start has happened and no successful stop that took its
\* target from the slot has followed the most recent one.
SessionAlive == sessionLife \in {"started", "stopFailed"}

\* C19: over any sequence of invocations, an action/script invocation
\* without manual override resolves to the stored session and connects to
\* its endpoint if and only if the most recent successful start has not
\* been followed by a successful stop of the stored session; otherwise it
\* launches a browser of its own. A failed stop leaves the next action
\* connecting, a successful one leaves it launching.
C19_ConnectsIffSessionAlive ==
    (IsBatch /\ ~cfg.manualSessionOverride) =>
      /\ (session # {}) <=> SessionAlive
      /\ SessionAlive => session = puppeteerSession
      /\ Len(calls) >= 1 =>
            IF SessionAlive
            THEN /\ calls[1].call = "connect"
                 /\ calls[1].arg = Value(puppeteerSession).wsEndpoint
                 /\ CountCalls("launch") = 0
            ELSE /\ calls[1].call = "launch"
                 /\ CountCalls("connect") = 0

\* After a start and a failed stop an action connected to the session.
C19_Witness ==
    /\ IsBatch /\ ~cfg.manualSessionOverride
    /\ sessionLife = "stopFailed"
    /\ Len(calls) >= 1 /\ calls[1].call = "connect" /\ calls[1].ok

\* After a start and a successful stop an action launched a browser.
C19_LaunchesAfterStop ==
    /\ IsBatch /\ ~cfg.manualSessionOverride
    /\ sessionLife = "stopped"
    /\ Len(calls) >= 1 /\ calls[1].call = "launch" /\ calls[1].ok

IsStart == operation = "startPersistentBrowser"
FailedStart ==
    IsStart /\ Len(calls) = 1 /\ calls[1].call = "httpRequest" /\ ~calls[1].ok

\* C20: a start invocation whose POST to the manager fails ends with
\* SessionStartFailure and leaves the slot as the invocation found it: an
\* empty slot stays empty, a stored descriptor is retained. The slot is
\* not touched while the POST is awaited either.
C20_FailedStartKeepsSlot ==
    /\ FailedStart =>
          /\ pc = "done"
          /\ outcome = Threw("SessionStartFailure")
          /\ puppeteerSession = startSlot
          /\ response = {}
    /\ (IsStart /\ pc = "startHttp") => puppeteerSession = startSlot

\* A start failed while an earlier session was stored, and the earlier
\* descriptor is still in the slot.
C20_Witness ==
    /\ FailedStart /\ startSlot # {} /\ puppeteerSession = startSlot
    /\ cfg.browserManagerUrl # Value(startSlot).browserManagerUrl

IsStop == operation = "stopPersistentBrowser"
\* The session a stop request was made for, as the history has it.
StopAimedAt ==
    IF calls[1].ok THEN startHistory.stopped ELSE startHistory.latest

\* C21: a start that succeeds while the slot holds a descriptor makes one
\* request only, the POST to /start (no stop request for the stored
\* session), and leaves the slot holding the new descriptor; a stop that
\* takes its target from the slot makes one request only, for the session
\* id of the latest successful start and at its manager, so a session that
\* was overwritten in the slot gets no stop request.
C21_StartOverwritesStopHitsLatest ==
    /\ (IsStart /\ pc = "done" /\ calls[1].ok) =>
          /\ calls = << Call("httpRequest", NoPair, cfg.sessionId,
                             cfg.browserManagerUrl \o "/start", TRUE) >>
          /\ puppeteerSession =
                {StartDescriptor(Value(response), cfg.browserManagerUrl)}
          /\ startHistory.latest = Value(response).sessionId
    /\ (IsStop /\ startSlot # {} /\ pc = "done") =>
          /\ Len(calls) = 1
          /\ calls[1].call = "httpRequest"
          /\ calls[1].arg = StopAimedAt
          /\ calls[1].arg = Value(startSlot).sessionId
          /\ calls[1].url = Value(startSlot).browserManagerUrl \o "/stop"
          /\ startHistory.superseded # StopAimedAt =>
                calls[1].arg # startHistory.superseded

\* Session s1 was stored, a second start stored s2 over it, and the stop
\* that followed asked the manager to stop s2.
C21_Witness ==
    /\ IsStop /\ startSlot # {} /\ pc = "done" /\ calls[1].ok
    /\ startHistory.superseded = "s1" /\ startHistory.stopped = "s2"
    /\ calls[1].arg = "s2"
    /\ puppeteerSession = {}

\* The second start itself: the slot held s1 and now holds s2.
C21_Overwritten ==
    /\ IsStart /\ pc = "done" /\ calls[1].ok
    /\ startSlot # {} /\ Value(startSlot).sessionId = "s1"
    /\ Value(puppeteerSession).sessionId = "s2"
    /\ startHistory.superseded = "s1"

\* An action/script invocation over no items whose connect or launch
\* succeeded.
EmptyBatch ==
    IsBatch /\ cfg.n = 0 /\ (Succeeded("connect") \/ Succeeded("launch"))

\* C22: an action/script invocation over an empty item set that obtained
\* its browser (connect or launch) opens and looks up no page, makes exactly
\* one teardown call, disconnect on a connected browser and close on a
\* launched one, and returns an empty output. It fails when the teardown
\* call rejects: execute then throws instead of returning.
C22_EmptyBatchReturnsEmpty ==
    EmptyBatch =>
      /\ Len(calls) <= 2
      /\ CountCalls("newPage") = 0 /\ CountCalls("pages") = 0
      /\ page = "none" /\ returnData = <<>>
      /\ pc \in {"teardown", "done"}
      /\ pc = "done" =>
            /\ Len(calls) = 2
            /\ calls[2].call = IF Succeeded("connect")
                               THEN "browser.disconnect" ELSE "browser.close"
            /\ outcome = Returned(<<>>)

\* A batch that read a stored session when it started.
AmbientBatch == IsBatch /\ pc # "idle" /\ startSlot # {}
\* The slot no longer holds what the batch read.
SlotChanged == puppeteerSession # startSlot

\* C23: a batch that read a stored session keeps using the descriptor it
\* read, whatever a concurrent start or stop does to the slot meanwhile:
\* it connects to that descriptor's endpoint, every item it reaches is
\* looked up once by that descriptor's page id, every result record is
\* stamped with it, no browser is launched, no page opened or closed, and
\* the teardown is one disconnect, made last, and never a close.
C23_BatchKeepsDescriptorItRead ==
    AmbientBatch =>
      /\ session = startSlot /\ ~isManualSession
      /\ \A k \in 1..Len(calls) :
            /\ calls[k].call \notin {"launch", "newPage", "page.close",
                                      "browser.close"}
            /\ calls[k].call = "connect" =>
                  k = 1 /\ calls[k].arg = Value(startSlot).wsEndpoint
            /\ calls[k].call = "pages" =>
                  calls[k].arg = Value(startSlot).pageId
            /\ calls[k].call = "browser.disconnect" =>
                  k = Len(calls) /\ pc = "done"
      /\ \A j \in 0..(cfg.n - 1) :
            (j < i \/ (j = i /\ pc \in {"body", "finally"})) =>
              Cardinality({k \in CallsNamed("pages") : calls[k].item = j}) = 1
      /\ \A k \in 1..Len(AllRecords) :
            AllRecords[k].kind # "error" =>
              AllRecords[k].pageId = Value(startSlot).pageId
      /\ (pc = "done" /\ Succeeded("connect")) =>
            CountCalls("browser.disconnect") = 1

\* The slot was overwritten with another session while the batch ran; both
\* items were still looked up by the page id the batch had read, their
\* records carry it, and the browser was disconnected.
C23_Witness ==
    /\ AmbientBatch /\ pc = "done" /\ cfg.n = 2
    /\ SlotChanged /\ puppeteerSession # {}
    /\ Value(puppeteerSession).pageId # Value(startSlot).pageId
    /\ CountCalls("pages") = 2
    /\ Len(outcome.recs) = 2
    /\ \A k \in 1..2 : outcome.recs[k].pageId = Value(startSlot).pageId
    /\ calls[Len(calls)].call = "browser.disconnect"

\* The same with the slot deleted by a concurrent stop.
C23_StoppedMeanwhile ==
    /\ AmbientBatch /\ pc = "done" /\ cfg.n = 2
    /\ puppeteerSession = {}
    /\ Len(outcome.recs) = 2
    /\ \A k \in 1..2 : outcome.recs[k].pageId = Value(startSlot).pageId
    /\ calls[Len(calls)].call = "browser.disconnect"

Running == pc \notin {"idle", "done"}
\* An action/script invocation whose connect or launch succeeded.
ObtainedBrowser == IsBatch /\ (Succeeded("connect") \/ Succeeded("launch"))

\* C24: given that every awaited external call returns or throws, every
\* invocation that is running eventually ends (returns or throws), and an
\* action/script invocation that obtained its browser eventually has ended
\* with its one teardown call made; it never ends without it.
C24_TerminatesAfterTeardown ==
    /\ Running ~> (pc = "done")
    /\ ObtainedBrowser ~> (pc = "done" /\ ObtainedBrowser /\ Teardowns = 1)
    /\ []((pc = "done" /\ ObtainedBrowser) => Teardowns = 1)

\* A batch without continue-on-failure stopped at its first item, which
\* failed, and ended after closing the browser it had launched.
C24_Witness ==
    /\ pc = "done" /\ ObtainedBrowser /\ cfg.n = 2 /\ ~cfg.continueOnFail
    /\ i = 0 /\ inflight # ""
    /\ Teardowns = 1 /\ calls[Len(calls)].call = "browser.close"
====
